---------------------------- MODULE Spec2Model ----------------------------
(***************************************************************************)
(* Verification model of agent_core.utils:                                 *)
(*   - CircuitBreaker (circuit_breaker.py), shared by concurrent asyncio   *)
(*     tasks of one event loop;                                            *)
(*   - ConversationWindowManager (token_counter.py): truncate_conversation,*)
(*     summarize_conversation and should_summarize;                        *)
(* and of agent_core.nodes.rag_retriever:                                  *)
(*   - EmbeddingStore, the process-wide singleton, used by threads;        *)
(* and of the server package:                                              *)
(*   - ConnectionManager (websocket.py) with the handlers of               *)
(*     websocket_endpoint (main.py), one asyncio task per socket.          *)
(* Each component has its own specification; the variables of the other    *)
(* components stay at their parked initial values.                         *)
(*                                                                         *)
(* Scheduling.  The breaker is used by asyncio tasks.  A task runs without *)
(* interruption until it suspends; `cur` is the task the event loop is     *)
(* running (NoTask between runs).  asyncio.Lock.acquire returns at once    *)
(* when the lock is free, and no holder of the breaker's lock awaits       *)
(* inside its critical section, so the only suspension point of            *)
(* CircuitBreaker.call is the await of the wrapped operation.  A wrapped   *)
(* operation that never suspends is the behaviour in which FuncReturn      *)
(* follows Invoke immediately.                                             *)
(*                                                                         *)
(* Time.  time.time() is the integer clock `now`; it advances between      *)
(* runs of tasks (Tick).                                                   *)
(***************************************************************************)
EXTENDS Integers, Sequences, FiniteSets, TLC

---------------------------------------------------------------------------
(* Bounds of the model *)

NumCallers == 2
MaxCalls == 5
MaxTime == 4

(* CircuitBreakerConfig of the modelled breaker *)
failure_threshold == 3
success_threshold == 2
recovery_timeout == 2
failure_window == 3

(* Inputs of truncate_conversation *)
MaxTurns == 4
MaxContentTokens == 2
MaxMinKeep == 2
MaxBudget == 24
BudgetStep == 8
MaxSystemPromptTokens == 3
MaxRagContextTokens == 2

(* Inputs of summarize_conversation and should_summarize *)
MaxKeepRecent == 3
MaxLongTurns == 12

(* default of should_summarize's threshold, in tenths *)
DefaultThreshold == 8

(* number of neighbours project_query averages over *)
ProjectionNeighbours == 5

(* Inputs of the EmbeddingStore: threads using the singleton, rows of the  *)
(* artefacts, coordinates of the vectors, top_k                            *)
NumThreads == 2
MaxRows == 2
MaxRecords == 3
MaxCoord == 1
MaxTopK == 4
NumSockets == 3
NumSessions == 2
MaxMessages == 2
MaxEvents == 2

Callers == 1..NumCallers
NoTask == 0
None == -1
Threads == 1..NumThreads
Sockets == 1..NumSockets
Sessions == 1..NumSessions
NoSocket == 0
NoSession == 0

Min(a, b) == IF a <= b THEN a ELSE b

(* How a call of a synchronous function ended: it returned v or raised e *)
Returned(v) == [raised |-> "", value |-> v]
Raised(e) == [raised |-> e, value |-> <<>>]
NotCalled == [raised |-> "not called", value |-> <<>>]

(* The request summarize_conversation makes to the model: not made, or    *)
(* made with a prompt text and ended by a response or an exception         *)
NoRequest == [text |-> <<>>, outcome |-> "not made", content |-> <<>>]

(* An attribute of the EmbeddingStore is None or an array / a list *)
Unset == [is_none |-> TRUE, rows |-> <<>>]
Array(rows) == [is_none |-> FALSE, rows |-> rows]

(* A file of an embeddings directory does not exist, or holds rows *)
Missing == [exists |-> FALSE, rows |-> <<>>]
Stored(rows) == [exists |-> TRUE, rows |-> rows]
NoArtefacts == [embeddings |-> Missing, projections |-> Missing, chunks |-> Missing]

(* the default of load()'s embeddings_path, and settings.embeddings_dir *)
DefaultPath == "data/embeddings"
Directories == {DefaultPath, "settings.embeddings_dir"}

NoOp == [name |-> "none", path |-> "", query |-> <<>>, top_k |-> 0]

(* no operation of the task's current call has been invoked *)
NotAdmitted == [state |-> "none", since |-> None]

CLOSED == "closed"
OPEN == "open"
HALF_OPEN == "half_open"

(* Outcomes of the wrapped operation: it returns, raises an exception of   *)
(* config.monitored_exceptions, or raises any other exception.             *)
Outcomes == {"ok", "MonitoredError", "UnmonitoredError"}
RecordedOutcomes == {"ok", "MonitoredError"}

VARIABLES
  stats,      \* CircuitBreaker.stats (a CircuitBreakerStats)
  lock,       \* holder of CircuitBreaker._lock, NoTask when free
  now,        \* time.time()
  cur,        \* task the event loop is running, NoTask when none
  pc,         \* position of each task inside CircuitBreaker.call
  admitted,   \* per task: the wrapped operation of the current call was invoked
  admitted_in, \* per task: the breaker's state and last_state_change when the operation was invoked
  result,     \* per task: how its latest call ended ("none" while running)
  started,    \* number of calls begun
  completed,  \* number of calls that returned or raised since construction/reset
  recorded,   \* ... of which the outcome went through _record_success/_record_failure
  conversation, min_messages_to_keep, max_tokens,
  system_prompt_tokens, rag_context_tokens,
  wm_pc, once, twice,
  keep_recent_messages,  \* argument of summarize_conversation
  llm,          \* the request made to the summarizing model and how it ended
  summarized,   \* how summarize_conversation ended
  threshold,    \* argument of should_summarize, in tenths
  should,       \* how should_summarize ended
  files,        \* per directory: the artefacts stored there
  embeddings, projections, chunks,  \* fields of the EmbeddingStore singleton
  es_pc,        \* position of each thread inside the EmbeddingStore
  es_op,        \* per thread: the method it is executing and its arguments
  answer,       \* per thread: how its latest method call ended
  reads,        \* the reads of the artefacts load() made, in order
  connections,  \* ConnectionManager._connections: per session its socket, NoSocket when absent
  metadata,     \* ConnectionManager._metadata: per session its message_count, None when absent
  ws_state,     \* per socket: "connecting", "open" or "closed"
  ws_pc,        \* per socket: position of its websocket_endpoint handler
  ws_session,   \* per socket: the session id of its URL
  old_ws,       \* per handler: the local old_ws of connect()
  send_ws,      \* per handler: the local websocket of send_event()
  pending,      \* per handler: events still to send for the message being handled
  newest,       \* per session: the socket the latest connect() registered
  received      \* number of client messages received

cbVars == <<stats, lock, now, cur, pc, admitted, admitted_in, result, started, completed, recorded>>
wmVars == <<conversation, min_messages_to_keep, max_tokens,
            system_prompt_tokens, rag_context_tokens, wm_pc, once, twice>>
smVars == <<keep_recent_messages, llm, summarized, threshold, should>>
esVars == <<files, embeddings, projections, chunks, es_pc, es_op, answer, reads>>
cmVars == <<connections, metadata, ws_state, ws_pc, ws_session, old_ws,
            send_ws, pending, newest, received>>
vars == <<cbVars, wmVars, smVars, esVars, cmVars>>

smIdle == UNCHANGED smVars
cmIdle == UNCHANGED cmVars
esIdle == UNCHANGED esVars

---------------------------------------------------------------------------
(* CircuitBreakerStats and the synchronous helpers of CircuitBreaker *)

CircuitBreakerStats(t) ==
  [state |-> CLOSED, failure_count |-> 0, success_count |-> 0,
   last_failure_time |-> None, last_state_change |-> t,
   total_calls |-> 0, total_failures |-> 0, total_successes |-> 0]

ShouldAttemptReset_IgnoresTimeout(s, t) == s.state = OPEN

ShouldAttemptReset_Strict(s, t) ==
  IF s.state # OPEN THEN FALSE
  ELSE IF s.last_failure_time = None THEN TRUE
  ELSE t - s.last_failure_time > recovery_timeout

ShouldAttemptReset(s, t) ==
  IF s.state # OPEN THEN FALSE
  ELSE IF s.last_failure_time = None THEN TRUE
  ELSE t - s.last_failure_time >= recovery_timeout

IsFailureWindowExpired(s, t) ==
  IF s.last_failure_time = None THEN TRUE
  ELSE t - s.last_failure_time >= failure_window

OpenCircuit_KeepsSuccesses(s, t) ==
  [s EXCEPT !.state = OPEN, !.last_state_change = t]

OpenCircuit(s, t) ==
  [s EXCEPT !.state = OPEN, !.last_state_change = t, !.success_count = 0]

CloseCircuit_KeepsSuccesses(s, t) ==
  [s EXCEPT !.state = CLOSED, !.last_state_change = t, !.failure_count = 0]

CloseCircuit_KeepsFailures(s, t) ==
  [s EXCEPT !.state = CLOSED, !.last_state_change = t, !.success_count = 0]

CloseCircuit(s, t) ==
  [s EXCEPT !.state = CLOSED, !.last_state_change = t,
            !.failure_count = 0, !.success_count = 0]

HalfOpenCircuit_StaysOpen(s, t) ==
  [s EXCEPT !.last_state_change = t, !.success_count = 0]

HalfOpenCircuit(s, t) ==
  [s EXCEPT !.state = HALF_OPEN, !.last_state_change = t, !.success_count = 0]

(* body of _record_success, run under the lock *)
RecordSuccess_ClosesWhenOpen(s, t) ==
  LET s1 == [s EXCEPT !.total_calls = @ + 1, !.total_successes = @ + 1] IN
  IF s1.state = HALF_OPEN THEN
    LET s2 == [s1 EXCEPT !.success_count = @ + 1] IN
    IF s2.success_count >= success_threshold THEN CloseCircuit(s2, t) ELSE s2
  ELSE IF s1.state = CLOSED THEN
    IF IsFailureWindowExpired(s1, t) THEN [s1 EXCEPT !.failure_count = 0] ELSE s1
  ELSE CloseCircuit(s1, t)

RecordSuccess_ClosesLate(s, t) ==
  LET s1 == [s EXCEPT !.total_calls = @ + 1, !.total_successes = @ + 1] IN
  IF s1.state = HALF_OPEN THEN
    LET s2 == [s1 EXCEPT !.success_count = @ + 1] IN
    IF s2.success_count > success_threshold THEN CloseCircuit(s2, t) ELSE s2
  ELSE IF s1.state = CLOSED THEN
    IF IsFailureWindowExpired(s1, t) THEN [s1 EXCEPT !.failure_count = 0] ELSE s1
  ELSE s1

RecordSuccess_DropsCall(s, t) ==
  LET s1 == [s EXCEPT !.total_successes = @ + 1] IN
  IF s1.state = HALF_OPEN THEN
    LET s2 == [s1 EXCEPT !.success_count = @ + 1] IN
    IF s2.success_count >= success_threshold THEN CloseCircuit(s2, t) ELSE s2
  ELSE IF s1.state = CLOSED THEN
    IF IsFailureWindowExpired(s1, t) THEN [s1 EXCEPT !.failure_count = 0] ELSE s1
  ELSE s1

RecordSuccess(s, t) ==
  LET s1 == [s EXCEPT !.total_calls = @ + 1, !.total_successes = @ + 1] IN
  IF s1.state = HALF_OPEN THEN
    LET s2 == [s1 EXCEPT !.success_count = @ + 1] IN
    IF s2.success_count >= success_threshold THEN CloseCircuit(s2, t) ELSE s2
  ELSE IF s1.state = CLOSED THEN
    IF IsFailureWindowExpired(s1, t) THEN [s1 EXCEPT !.failure_count = 0] ELSE s1
  ELSE s1

(* body of _record_failure, run under the lock *)
RecordFailure_OffByOne(s, t) ==
  LET s1 == [s EXCEPT !.total_calls = @ + 1, !.total_failures = @ + 1,
                      !.last_failure_time = t] IN
  IF s1.state = HALF_OPEN THEN OpenCircuit(s1, t)
  ELSE IF s1.state = CLOSED THEN
    LET s2 == [s1 EXCEPT !.failure_count = @ + 1] IN
    IF s2.failure_count > failure_threshold THEN OpenCircuit(s2, t) ELSE s2
  ELSE s1

RecordFailure(s, t) ==
  LET s1 == [s EXCEPT !.total_calls = @ + 1, !.total_failures = @ + 1,
                      !.last_failure_time = t] IN
  IF s1.state = HALF_OPEN THEN OpenCircuit(s1, t)
  ELSE IF s1.state = CLOSED THEN
    LET s2 == [s1 EXCEPT !.failure_count = @ + 1] IN
    IF s2.failure_count >= failure_threshold THEN OpenCircuit(s2, t) ELSE s2
  ELSE s1

(* `except self.config.monitored_exceptions as e: ...; raise`: what the    *)
(* call raises for an exception e of the wrapped operation.                *)
Reraise_Wrapped(e) == "CircuitBreakerError"

Reraise(e) == e

(* CircuitBreaker.reset *)
ResetStats_KeepsTotals(s, t) ==
  [CircuitBreakerStats(t) EXCEPT !.total_calls = s.total_calls,
                                 !.total_failures = s.total_failures,
                                 !.total_successes = s.total_successes]

ResetStats(s, t) == CircuitBreakerStats(t)

---------------------------------------------------------------------------
(* CircuitBreaker.call, one action per uninterrupted piece *)

wmIdle == UNCHANGED wmVars

Call_TransitionsUnlocked(p) ==
  /\ cur = NoTask
  /\ pc[p] = "idle"
  /\ started < MaxCalls
  /\ started' = started + 1
  /\ cur' = p
  /\ result' = [result EXCEPT ![p] = "none"]
  /\ admitted' = [admitted EXCEPT ![p] = FALSE]
  /\ stats' = IF ShouldAttemptReset(stats, now)
              THEN HalfOpenCircuit(stats, now) ELSE stats
  /\ pc' = [pc EXCEPT ![p] = "check_open"]
  /\ UNCHANGED <<admitted_in, lock, now, completed, recorded>>
  /\ wmIdle /\ smIdle /\ esIdle /\ cmIdle

(* call() begins: line 224 evaluates _should_attempt_reset() without lock *)
Call(p) ==
  /\ cur = NoTask
  /\ pc[p] = "idle"
  /\ started < MaxCalls
  /\ started' = started + 1
  /\ cur' = p
  /\ result' = [result EXCEPT ![p] = "none"]
  /\ admitted' = [admitted EXCEPT ![p] = FALSE]
  /\ pc' = [pc EXCEPT ![p] = IF ShouldAttemptReset(stats, now)
                             THEN "reset_lock" ELSE "check_open"]
  /\ UNCHANGED <<admitted_in, stats, lock, now, completed, recorded>>
  /\ wmIdle /\ smIdle /\ esIdle /\ cmIdle

(* line 225: async with self._lock *)
AcquireForReset(p) ==
  /\ cur = p
  /\ pc[p] = "reset_lock"
  /\ lock = NoTask
  /\ lock' = p
  /\ pc' = [pc EXCEPT ![p] = "reset_cs"]
  /\ UNCHANGED <<stats, now, cur, admitted, admitted_in, result, started, completed, recorded>>
  /\ wmIdle /\ smIdle /\ esIdle /\ cmIdle

(* lines 226-227 and the release of the lock *)
HalfOpenUnderLock(p) ==
  /\ cur = p
  /\ pc[p] = "reset_cs"
  /\ lock = p
  /\ stats' = IF stats.state = OPEN THEN HalfOpenCircuit(stats, now) ELSE stats
  /\ lock' = NoTask
  /\ pc' = [pc EXCEPT ![p] = "check_open"]
  /\ UNCHANGED <<now, cur, admitted, admitted_in, result, started, completed, recorded>>
  /\ wmIdle /\ smIdle /\ esIdle /\ cmIdle

(* lines 230-235: the breaker is open, raise CircuitBreakerError *)
Reject(p) ==
  /\ cur = p
  /\ pc[p] = "check_open"
  /\ stats.state = OPEN
  /\ pc' = [pc EXCEPT ![p] = "idle"]
  /\ result' = [result EXCEPT ![p] = "CircuitBreakerError"]
  /\ completed' = completed + 1
  /\ cur' = NoTask
  /\ UNCHANGED <<stats, lock, now, admitted, admitted_in, started, recorded>>
  /\ wmIdle /\ smIdle /\ esIdle /\ cmIdle

Invoke_HoldsLock(p) ==
  /\ cur = p
  /\ pc[p] = "check_open"
  /\ stats.state # OPEN
  /\ pc' = [pc EXCEPT ![p] = "running"]
  /\ admitted' = [admitted EXCEPT ![p] = TRUE]
  /\ cur' = NoTask
  /\ admitted_in' = [admitted_in EXCEPT ![p] = [state |-> stats.state, since |-> stats.last_state_change]]
  /\ lock' = p
  /\ UNCHANGED <<stats, now, result, started, completed, recorded>>
  /\ wmIdle /\ smIdle /\ esIdle /\ cmIdle

(* lines 230, 239: not open, the wrapped operation is invoked and awaited *)
Invoke(p) ==
  /\ cur = p
  /\ pc[p] = "check_open"
  /\ stats.state # OPEN
  /\ pc' = [pc EXCEPT ![p] = "running"]
  /\ admitted' = [admitted EXCEPT ![p] = TRUE]
  /\ cur' = NoTask
  /\ admitted_in' = [admitted_in EXCEPT ![p] = [state |-> stats.state, since |-> stats.last_state_change]]
  /\ UNCHANGED <<stats, lock, now, result, started, completed, recorded>>
  /\ wmIdle /\ smIdle /\ esIdle /\ cmIdle

(* line 239 returns, or raises a monitored exception (line 243) *)
FuncReturn(p, o) ==
  /\ cur = NoTask
  /\ pc[p] = "running"
  /\ cur' = p
  /\ pc' = [pc EXCEPT ![p] = IF o = "ok" THEN "succ_lock" ELSE "fail_lock"]
  /\ UNCHANGED <<stats, lock, now, admitted, admitted_in, result, started, completed, recorded>>
  /\ wmIdle /\ smIdle /\ esIdle /\ cmIdle

FuncRaiseUnmonitored_Records(p) ==
  /\ cur = NoTask
  /\ pc[p] = "running"
  /\ pc' = [pc EXCEPT ![p] = "idle"]
  /\ result' = [result EXCEPT ![p] = "UnmonitoredError"]
  /\ completed' = completed + 1
  /\ stats' = RecordFailure(stats, now)
  /\ UNCHANGED admitted
  /\ admitted_in' = [admitted_in EXCEPT ![p] = NotAdmitted]
  /\ UNCHANGED <<lock, now, cur, started, recorded>>
  /\ wmIdle /\ smIdle /\ esIdle /\ cmIdle

(* line 239 raises an exception no except clause of call() matches *)
FuncRaiseUnmonitored(p) ==
  /\ cur = NoTask
  /\ pc[p] = "running"
  /\ pc' = [pc EXCEPT ![p] = "idle"]
  /\ result' = [result EXCEPT ![p] = "UnmonitoredError"]
  /\ completed' = completed + 1
  /\ UNCHANGED admitted
  /\ admitted_in' = [admitted_in EXCEPT ![p] = NotAdmitted]
  /\ UNCHANGED <<stats, lock, now, cur, started, recorded>>
  /\ wmIdle /\ smIdle /\ esIdle /\ cmIdle

(* lines 134 and 155: async with self._lock *)
AcquireForRecord(p) ==
  /\ cur = p
  /\ pc[p] \in {"succ_lock", "fail_lock"}
  /\ lock = NoTask
  /\ lock' = p
  /\ pc' = [pc EXCEPT ![p] = IF pc[p] = "succ_lock" THEN "succ_cs" ELSE "fail_cs"]
  /\ UNCHANGED <<stats, now, cur, admitted, admitted_in, result, started, completed, recorded>>
  /\ wmIdle /\ smIdle /\ esIdle /\ cmIdle

(* lines 135-151, release, line 241: return result *)
RecordSuccessAndReturn(p) ==
  /\ cur = p
  /\ pc[p] = "succ_cs"
  /\ lock = p
  /\ stats' = RecordSuccess(stats, now)
  /\ lock' = NoTask
  /\ pc' = [pc EXCEPT ![p] = "idle"]
  /\ result' = [result EXCEPT ![p] = "returned"]
  /\ completed' = completed + 1
  /\ recorded' = recorded + 1
  /\ cur' = NoTask
  /\ UNCHANGED admitted
  /\ admitted_in' = [admitted_in EXCEPT ![p] = NotAdmitted]
  /\ UNCHANGED <<now, started>>
  /\ wmIdle /\ smIdle /\ esIdle /\ cmIdle

(* lines 156-176, release, line 245: raise *)
RecordFailureAndRaise(p) ==
  /\ cur = p
  /\ pc[p] = "fail_cs"
  /\ lock = p
  /\ stats' = RecordFailure(stats, now)
  /\ lock' = NoTask
  /\ pc' = [pc EXCEPT ![p] = "idle"]
  /\ result' = [result EXCEPT ![p] = Reraise("MonitoredError")]
  /\ completed' = completed + 1
  /\ recorded' = recorded + 1
  /\ cur' = NoTask
  /\ UNCHANGED admitted
  /\ admitted_in' = [admitted_in EXCEPT ![p] = NotAdmitted]
  /\ UNCHANGED <<now, started>>
  /\ wmIdle /\ smIdle /\ esIdle /\ cmIdle

(* CircuitBreaker.reset(), a synchronous call made between runs of tasks *)
Reset ==
  /\ cur = NoTask
  /\ stats' = ResetStats(stats, now)
  /\ completed' = 0
  /\ recorded' = 0
  /\ UNCHANGED <<lock, now, cur, pc, admitted, admitted_in, result, started>>
  /\ wmIdle /\ smIdle /\ esIdle /\ cmIdle

Tick ==
  /\ cur = NoTask
  /\ now < MaxTime
  /\ now' = now + 1
  /\ UNCHANGED <<stats, lock, cur, pc, admitted, admitted_in, result, started, completed, recorded>>
  /\ wmIdle /\ smIdle /\ esIdle /\ cmIdle

---------------------------------------------------------------------------

cbInit ==
  /\ stats = CircuitBreakerStats(0)
  /\ lock = NoTask
  /\ now = 0
  /\ cur = NoTask
  /\ pc = [p \in Callers |-> "idle"]
  /\ admitted = [p \in Callers |-> FALSE]
  /\ admitted_in = [p \in Callers |-> NotAdmitted]
  /\ result = [p \in Callers |-> "none"]
  /\ started = 0
  /\ completed = 0
  /\ recorded = 0

wmParked ==
  /\ conversation = <<>>
  /\ min_messages_to_keep = 0
  /\ max_tokens = 0
  /\ system_prompt_tokens = 0
  /\ rag_context_tokens = 0
  /\ wm_pc = "parked"
  /\ once = NotCalled
  /\ twice = NotCalled

smParked ==
  /\ keep_recent_messages = 0
  /\ llm = NoRequest
  /\ summarized = NotCalled
  /\ threshold = 0
  /\ should = NotCalled

esParked ==
  /\ files = [d \in Directories |-> NoArtefacts]
  /\ embeddings = Unset
  /\ projections = Unset
  /\ chunks = Unset
  /\ es_pc = [t \in Threads |-> "parked"]
  /\ es_op = [t \in Threads |-> NoOp]
  /\ answer = [t \in Threads |-> NotCalled]
  /\ reads = <<>>

cmParked ==
  /\ connections = [s \in Sessions |-> NoSocket]
  /\ metadata = [s \in Sessions |-> None]
  /\ ws_state = [w \in Sockets |-> "connecting"]
  /\ ws_pc = [w \in Sockets |-> "parked"]
  /\ ws_session = [w \in Sockets |-> NoSession]
  /\ old_ws = [w \in Sockets |-> NoSocket]
  /\ send_ws = [w \in Sockets |-> NoSocket]
  /\ pending = [w \in Sockets |-> 0]
  /\ newest = [s \in Sessions |-> NoSocket]
  /\ received = 0

Init == cbInit /\ wmParked /\ smParked /\ esParked /\ cmParked

Next ==
  \/ \E p \in Callers : Call(p)
  \/ \E p \in Callers : AcquireForReset(p)
  \/ \E p \in Callers : HalfOpenUnderLock(p)
  \/ \E p \in Callers : Reject(p)
  \/ \E p \in Callers : Invoke(p)
  \/ \E p \in Callers, o \in RecordedOutcomes : FuncReturn(p, o)
  \/ \E p \in Callers : FuncRaiseUnmonitored(p)
  \/ \E p \in Callers : AcquireForRecord(p)
  \/ \E p \in Callers : RecordSuccessAndReturn(p)
  \/ \E p \in Callers : RecordFailureAndRaise(p)
  \/ Reset
  \/ Tick

Spec == Init /\ [][Next]_vars

---------------------------------------------------------------------------
(* TokenCounter.  A text is represented by its encoding, a sequence of     *)
(* tokens; a role name encodes to one token.                               *)

Roles == {"system", "user", "assistant"}
Text(n) == [i \in 1..n |-> "t"]
Contents == {Text(0), Text(MaxContentTokens)}
Messages == [role : Roles, content : Contents]
RoleText(role) == <<role>>

CountTokens(text) == Len(text)

CountMessageTokens(message) ==
  3 + CountTokens(RoleText(message.role)) + CountTokens(message.content)

RECURSIVE SumTokens(_)
SumTokens(messages) ==
  IF messages = <<>> THEN 0
  ELSE CountMessageTokens(Head(messages)) + SumTokens(Tail(messages))

CountMessagesTokens(messages) == SumTokens(messages) + 3

CountConversationTokens(conv) ==
  CountMessagesTokens([i \in 1..Len(conv) |->
                         [role |-> conv[i].role, content |-> conv[i].content]])

---------------------------------------------------------------------------
(* ConversationWindowManager.truncate_conversation.  A call either returns *)
(* a list or raises; self is [min_messages_to_keep, max_tokens].           *)

(* list.pop(i) with a 0-based index i: the list without that element *)
Pop(list, i) == [k \in 1..(Len(list) - 1) |-> IF k <= i THEN list[k] ELSE list[k + 1]]

(* lines 149-162 *)
RECURSIVE TruncateLoop(_, _, _)
TruncateLoop(self, truncated, available_tokens) ==
  IF Len(truncated) > self.min_messages_to_keep THEN
    IF truncated[1].role = "system" /\ Len(truncated) < 2 THEN Raised("IndexError")
    ELSE
      LET popped == IF truncated[1].role = "system"
                    THEN Pop(truncated, 1) ELSE Pop(truncated, 0)
      IN IF CountConversationTokens(popped) <= available_tokens
         THEN Returned(popped)
         ELSE TruncateLoop(self, popped, available_tokens)
  ELSE Returned(truncated)

TruncateConversation_StrictFit(self, conv, sys_tokens, rag_tokens) ==
  IF Len(conv) <= self.min_messages_to_keep THEN Returned(conv)
  ELSE LET available_tokens == self.max_tokens - sys_tokens - rag_tokens IN
       IF CountConversationTokens(conv) < available_tokens THEN Returned(conv)
       ELSE TruncateLoop(self, conv, available_tokens)

(* lines 132-162 *)
TruncateConversation(self, conv, sys_tokens, rag_tokens) ==
  IF Len(conv) <= self.min_messages_to_keep THEN Returned(conv)
  ELSE LET available_tokens == self.max_tokens - sys_tokens - rag_tokens IN
       IF CountConversationTokens(conv) <= available_tokens THEN Returned(conv)
       ELSE TruncateLoop(self, conv, available_tokens)

Manager == [min_messages_to_keep |-> min_messages_to_keep, max_tokens |-> max_tokens]
AvailableTokens == max_tokens - system_prompt_tokens - rag_context_tokens

RECURSIVE SeqsUpTo(_, _)
SeqsUpTo(S, n) ==
  IF n = 0 THEN {<<>>}
  ELSE LET shorter == SeqsUpTo(S, n - 1) IN
       shorter \cup {Append(c, m) : c \in {x \in shorter : Len(x) = n - 1}, m \in S}

cbIdle == UNCHANGED cbVars

(* the caller truncates a conversation *)
TruncateOnce ==
  /\ wm_pc = "input"
  /\ once' = TruncateConversation(Manager, conversation,
                                  system_prompt_tokens, rag_context_tokens)
  /\ wm_pc' = "once"
  /\ UNCHANGED <<conversation, min_messages_to_keep, max_tokens,
                 system_prompt_tokens, rag_context_tokens, twice>>
  /\ cbIdle /\ smIdle /\ esIdle /\ cmIdle

(* the caller truncates the list the first call returned *)
TruncateAgain ==
  /\ wm_pc = "once"
  /\ once.raised = ""
  /\ twice' = TruncateConversation(Manager, once.value,
                                   system_prompt_tokens, rag_context_tokens)
  /\ wm_pc' = "twice"
  /\ UNCHANGED <<conversation, min_messages_to_keep, max_tokens,
                 system_prompt_tokens, rag_context_tokens, once>>
  /\ cbIdle /\ smIdle /\ esIdle /\ cmIdle

wmInit ==
  /\ conversation \in SeqsUpTo(Messages, MaxTurns)
  /\ min_messages_to_keep \in 0..MaxMinKeep
  /\ max_tokens \in {b \in 0..MaxBudget : b % BudgetStep = 0}
  /\ system_prompt_tokens \in {0, MaxSystemPromptTokens}
  /\ rag_context_tokens \in {0, MaxRagContextTokens}
  /\ wm_pc = "input"
  /\ once = NotCalled
  /\ twice = NotCalled

WMInit == cbInit /\ wmInit /\ smParked /\ esParked /\ cmParked
WMNext == TruncateOnce \/ TruncateAgain
WMSpec == WMInit /\ [][WMNext]_vars

---------------------------------------------------------------------------
(* ConversationWindowManager.summarize_conversation (and its synchronous   *)
(* twin summarize_conversation_sync, the same code around llm.invoke).     *)

(* Python's list[:stop] and list[start:] with an integer bound: a negative *)
(* bound counts from the end of the list, and -0 is 0.                      *)
SliceIndex(i, n) == IF i < 0 THEN (IF i + n < 0 THEN 0 ELSE i + n) ELSE Min(i, n)
SliceTo(list, stop) == SubSeq(list, 1, SliceIndex(stop, Len(list)))
SliceFrom(list, start) == SubSeq(list, SliceIndex(start, Len(list)) + 1, Len(list))

(* str.upper() of a role *)
Upper(role) ==
  CASE role = "system" -> "SYSTEM"
    [] role = "user" -> "USER"
    [] role = "assistant" -> "ASSISTANT"

(* lines 212-215: one line "ROLE: content" per message *)
ConversationText(messages) ==
  [i \in 1..Len(messages) |->
     <<Upper(messages[i].role), ": ">> \o messages[i].content]

(* response.content: the model's summary, any text *)
Summaries == {Text(1), Text(MaxContentTokens)}

(* lines 236-239 *)
SummaryMessage(summary) ==
  [role |-> "system",
   content |-> <<"[Previous conversation summary: ">> \o summary \o <<"]">>]

(* lines 205-206 *)
MessagesToSummarize(conv, keep) == SliceTo(conv, -keep)
RecentMessages(conv, keep) == SliceFrom(conv, -keep)

(* lines 201-209: the conversation is returned as it is *)
ReturnsUnsummarized(conv, keep) ==
  \/ Len(conv) <= keep
  \/ MessagesToSummarize(conv, keep) = <<>>

(* line 242 *)
SummarizedConversation(conv, keep, summary) ==
  <<SummaryMessage(summary)>> \o RecentMessages(conv, keep)

(* lines 244-247: except Exception, fall back to truncation *)
SummarizeFallback(self, conv) == TruncateConversation(self, conv, 0, 0)

(* lines 201-231: summarize_conversation up to the await of the model *)
Summarize ==
  /\ wm_pc = "input"
  /\ IF ReturnsUnsummarized(conversation, keep_recent_messages)
     THEN /\ summarized' = Returned(conversation)
          /\ wm_pc' = "summarized"
          /\ llm' = llm
     ELSE /\ llm' = [text |-> ConversationText(
                               MessagesToSummarize(conversation, keep_recent_messages)),
                     outcome |-> "awaited", content |-> <<>>]
          /\ wm_pc' = "awaiting"
          /\ summarized' = summarized
  /\ UNCHANGED <<conversation, min_messages_to_keep, max_tokens,
                 system_prompt_tokens, rag_context_tokens, once, twice,
                 keep_recent_messages, threshold, should>>
  /\ cbIdle /\ esIdle /\ cmIdle

(* lines 226-242: the model responds *)
LlmResponds(summary) ==
  /\ wm_pc = "awaiting"
  /\ llm' = [llm EXCEPT !.outcome = "response", !.content = summary]
  /\ summarized' = Returned(SummarizedConversation(conversation,
                                                   keep_recent_messages, summary))
  /\ wm_pc' = "summarized"
  /\ UNCHANGED <<conversation, min_messages_to_keep, max_tokens,
                 system_prompt_tokens, rag_context_tokens, once, twice,
                 keep_recent_messages, threshold, should>>
  /\ cbIdle /\ esIdle /\ cmIdle

(* lines 226, 244-247: the request raises *)
LlmRaises ==
  /\ wm_pc = "awaiting"
  /\ llm' = [llm EXCEPT !.outcome = "raised"]
  /\ summarized' = SummarizeFallback(Manager, conversation)
  /\ wm_pc' = "summarized"
  /\ UNCHANGED <<conversation, min_messages_to_keep, max_tokens,
                 system_prompt_tokens, rag_context_tokens, once, twice,
                 keep_recent_messages, threshold, should>>
  /\ cbIdle /\ esIdle /\ cmIdle

smInit ==
  /\ conversation \in SeqsUpTo(Messages, MaxTurns)
  /\ min_messages_to_keep \in 0..MaxMinKeep
  /\ max_tokens \in {b \in 0..MaxBudget : b % BudgetStep = 0}
  /\ system_prompt_tokens = 0
  /\ rag_context_tokens = 0
  /\ wm_pc = "input"
  /\ once = NotCalled
  /\ twice = NotCalled
  /\ keep_recent_messages \in 0..MaxKeepRecent
  /\ llm = NoRequest
  /\ summarized = NotCalled
  /\ threshold = 0
  /\ should = NotCalled

SMInit == cbInit /\ smInit /\ esParked /\ cmParked
SMNext == Summarize \/ (\E summary \in Summaries : LlmResponds(summary)) \/ LlmRaises
SMSpec == SMInit /\ [][SMNext]_vars

---------------------------------------------------------------------------
(* ConversationWindowManager.should_summarize.  threshold is a float; the  *)
(* model takes it in tenths and compares the ratio exactly.                *)

(* num / den >= tenths / 10, for den # 0 *)
RatioAtLeast(num, den, tenths) ==
  IF den > 0 THEN num * 10 >= tenths * den ELSE num * 10 <= tenths * den

ShouldSummarize_TenSuffices(self, conv, tenths) ==
  LET current_tokens == CountConversationTokens(conv) IN
  IF self.max_tokens = 0 THEN Raised("ZeroDivisionError")
  ELSE Returned(RatioAtLeast(current_tokens, self.max_tokens, tenths)
                /\ Len(conv) >= 10)

(* lines 178-180 *)
ShouldSummarize(self, conv, tenths) ==
  LET current_tokens == CountConversationTokens(conv) IN
  IF self.max_tokens = 0 THEN Raised("ZeroDivisionError")
  ELSE Returned(RatioAtLeast(current_tokens, self.max_tokens, tenths)
                /\ Len(conv) > 10)

ShouldSummarizeCall ==
  /\ wm_pc = "input"
  /\ should' = ShouldSummarize(Manager, conversation, threshold)
  /\ wm_pc' = "asked"
  /\ UNCHANGED <<conversation, min_messages_to_keep, max_tokens,
                 system_prompt_tokens, rag_context_tokens, once, twice,
                 keep_recent_messages, llm, summarized, threshold>>
  /\ cbIdle /\ esIdle /\ cmIdle

(* conversations long enough for the length test, of user messages *)
LongMessages == [role : {"user"}, content : Contents]
Thresholds == {DefaultThreshold - 3, DefaultThreshold}

ssInit ==
  /\ conversation \in SeqsUpTo(LongMessages, MaxLongTurns)
  /\ min_messages_to_keep = 0
  /\ max_tokens \in {0, MaxBudget, 4 * MaxBudget}
  /\ system_prompt_tokens = 0
  /\ rag_context_tokens = 0
  /\ wm_pc = "input"
  /\ once = NotCalled
  /\ twice = NotCalled
  /\ keep_recent_messages = 0
  /\ llm = NoRequest
  /\ summarized = NotCalled
  /\ threshold \in Thresholds
  /\ should = NotCalled

SSInit == cbInit /\ ssInit /\ esParked /\ cmParked
SSNext == ShouldSummarizeCall
SSSpec == SSInit /\ [][SSNext]_vars

---------------------------------------------------------------------------
(* EmbeddingStore (rag_retriever.py), the process-wide singleton.  Vectors *)
(* have two integer coordinates.  The cosine similarity of a row a and a   *)
(* query q is kept exactly, as the fraction sq / den with                  *)
(* sq = sign(a.q) * (a.q)^2 and den = |a|^2 * |q|^2, which orders as the   *)
(* cosine does; dividing by a zero norm makes it NaN, as numpy does.       *)

Coords == (0 - MaxCoord)..MaxCoord
Vectors == {<<x, y>> : x \in Coords, y \in Coords}
Dot(a, b) == a[1] * b[1] + a[2] * b[2]
Sgn(x) == IF x > 0 THEN 1 ELSE IF x < 0 THEN 0 - 1 ELSE 0

NaN == [nan |-> TRUE, sq |-> 0, den |-> 1]

(* lines 100-106 for one row *)
Similarity(row, query) ==
  IF Dot(row, row) = 0 \/ Dot(query, query) = 0 THEN NaN
  ELSE [nan |-> FALSE, sq |-> Sgn(Dot(row, query)) * Dot(row, query) * Dot(row, query),
        den |-> Dot(row, row) * Dot(query, query)]

(* a <= b on floats: false when either is NaN *)
ScoreLeq(a, b) == ~a.nan /\ ~b.nan /\ a.sq * b.den <= b.sq * a.den

(* np.argsort: the permutations that put the scores in ascending order,    *)
(* NaN last; the order of equal scores is the sort's                       *)
SortsBefore(a, b) == IF a.nan THEN b.nan ELSE (b.nan \/ ScoreLeq(a, b))
Argsorts(similarities) ==
  LET n == Len(similarities) IN
  {p \in [1..n -> 1..n] :
     /\ \A i, j \in 1..n : i # j => p[i] # p[j]
     /\ \A i, j \in 1..n : i < j => SortsBefore(similarities[p[i]], similarities[p[j]])}

Reverse(list) == [i \in 1..Len(list) |-> list[Len(list) + 1 - i]]

RowSimilarities(rows, query) == [i \in 1..Len(rows) |-> Similarity(rows[i], query)]

(* lines 96-111, for the order argsort that np.argsort produced; the       *)
(* indices returned count from 0                                           *)
Search(rows, query, top_k, argsort) ==
  IF Len(rows) = 0 THEN <<>>
  ELSE LET similarities == RowSimilarities(rows, query)
           top_indices == Reverse(SliceFrom(argsort, -top_k))
       IN [i \in 1..Len(top_indices) |->
             <<top_indices[i] - 1, similarities[top_indices[i]]>>]

(* QueryProjection(x=0.0, y=0.0), and the weighted average of lines        *)
(* 130-140, kept as its <<weight, point>> terms                            *)
Origin == [literal |-> TRUE, terms |-> <<>>]
WeightedAverage(terms) == [literal |-> FALSE, terms |-> terms]

ProjectQuery_NoEmptyGuard(store, query, argsort) ==
  IF store.projections.is_none THEN Raised("TypeError")
  ELSE LET k == Min(ProjectionNeighbours, Len(store.embeddings.rows))
           results == Search(store.embeddings.rows, query, k, argsort)
       IN IF \E i \in 1..Len(results) : results[i][1] >= Len(store.projections.rows)
          THEN Raised("IndexError")
          ELSE Returned(WeightedAverage(
                 [i \in 1..Len(results) |->
                    <<results[i][2], store.projections.rows[results[i][1] + 1]>>]))

(* lines 120-140; len(None) raises TypeError *)
ProjectQuery(store, query, argsort) ==
  IF store.projections.is_none THEN Raised("TypeError")
  ELSE IF Len(store.projections.rows) = 0 \/ Len(store.embeddings.rows) = 0
  THEN Returned(Origin)
  ELSE LET k == Min(ProjectionNeighbours, Len(store.embeddings.rows))
           results == Search(store.embeddings.rows, query, k, argsort)
       IN IF results = <<>> THEN Returned(Origin)
          ELSE IF \E i \in 1..Len(results) : results[i][1] >= Len(store.projections.rows)
          THEN Raised("IndexError")
          ELSE Returned(WeightedAverage(
                 [i \in 1..Len(results) |->
                    <<results[i][2], store.projections.rows[results[i][1] + 1]>>]))

(* lines 144-155; enumerate(None) raises TypeError *)
GetAllPointsForVisualization(store) ==
  IF store.chunks.is_none THEN Raised("TypeError")
  ELSE IF Len(store.chunks.rows) > 0 /\ store.projections.is_none
  THEN Raised("TypeError")
  ELSE Returned([i \in 1..Min(Len(store.chunks.rows), Len(store.projections.rows)) |->
                   [id |-> store.chunks.rows[i].id, point |-> store.projections.rows[i]]])

Store == [embeddings |-> embeddings, projections |-> projections, chunks |-> chunks]

(* np.load / json.load of a file that exists, np.array([]) / [] otherwise *)
LoadFile(file) == IF file.exists THEN Array(file.rows) ELSE Array(<<>>)

---------------------------------------------------------------------------
(* Calls of the EmbeddingStore's methods by threads.  load() is not        *)
(* synchronised: a thread can be preempted between its statements.         *)

LoadOp(path) == [name |-> "load", path |-> path, query |-> <<>>, top_k |-> 0]
SearchOp(query, top_k) == [name |-> "search", path |-> "", query |-> query, top_k |-> top_k]
ProjectQueryOp(query) == [name |-> "project_query", path |-> "", query |-> query, top_k |-> 0]
GetAllPointsOp == [name |-> "get_all_points_for_visualization", path |-> "",
                   query |-> <<>>, top_k |-> 0]

(* the attribute a method reads first, through its property *)
FirstAttribute(op) ==
  CASE op.name = "search" -> embeddings
    [] op.name = "project_query" -> projections
    [] op.name = "get_all_points_for_visualization" -> chunks

(* the directory a running load() reads: its argument, or the default of   *)
(* the properties' self.load()                                             *)
LoadPath(t) == IF es_op[t].name = "load" THEN es_op[t].path ELSE DefaultPath

(* where load() returns to *)
AfterLoad(t) == IF es_op[t].name = "load" THEN "idle" ELSE "compute"
AnswerAfterLoad(t) ==
  IF es_op[t].name = "load" THEN [answer EXCEPT ![t] = Returned(<<>>)] ELSE answer

(* a thread calls a method: load(path) goes to line 39; another method     *)
(* evaluates its first property, which calls load() when the attribute is  *)
(* None (lines 69-70, 75-76, 81-82)                                        *)
Begin(t, op) ==
  /\ es_pc[t] = "idle"
  /\ es_op' = [es_op EXCEPT ![t] = op]
  /\ es_pc' = [es_pc EXCEPT ![t] =
                 IF op.name = "load" THEN "load_check"
                 ELSE IF FirstAttribute(op).is_none THEN "load_check"
                 ELSE "compute"]
  /\ answer' = [answer EXCEPT ![t] = NotCalled]
  /\ UNCHANGED <<files, embeddings, projections, chunks, reads>>
  /\ cbIdle /\ wmIdle /\ smIdle /\ cmIdle

(* lines 39-40 *)
LoadCheck(t) ==
  /\ es_pc[t] = "load_check"
  /\ IF embeddings.is_none
     THEN /\ es_pc' = [es_pc EXCEPT ![t] = "load_embeddings"]
          /\ answer' = answer
     ELSE /\ es_pc' = [es_pc EXCEPT ![t] = AfterLoad(t)]
          /\ answer' = AnswerAfterLoad(t)
  /\ UNCHANGED <<files, embeddings, projections, chunks, es_op, reads>>
  /\ cbIdle /\ wmIdle /\ smIdle /\ cmIdle

(* lines 42-50 *)
LoadEmbeddings(t) ==
  /\ es_pc[t] = "load_embeddings"
  /\ embeddings' = LoadFile(files[LoadPath(t)].embeddings)
  /\ reads' = Append(reads, [by |-> es_op[t].name, path |-> LoadPath(t)])
  /\ es_pc' = [es_pc EXCEPT ![t] = "load_projections"]
  /\ UNCHANGED <<files, projections, chunks, es_op, answer>>
  /\ cbIdle /\ wmIdle /\ smIdle /\ cmIdle

(* lines 53-57 *)
LoadProjections(t) ==
  /\ es_pc[t] = "load_projections"
  /\ projections' = LoadFile(files[LoadPath(t)].projections)
  /\ es_pc' = [es_pc EXCEPT ![t] = "load_chunks"]
  /\ UNCHANGED <<files, embeddings, chunks, es_op, answer, reads>>
  /\ cbIdle /\ wmIdle /\ smIdle /\ cmIdle

(* lines 60-65, and load() returns *)
LoadChunks(t) ==
  /\ es_pc[t] = "load_chunks"
  /\ chunks' = LoadFile(files[LoadPath(t)].chunks)
  /\ es_pc' = [es_pc EXCEPT ![t] = AfterLoad(t)]
  /\ answer' = AnswerAfterLoad(t)
  /\ UNCHANGED <<files, embeddings, projections, es_op, reads>>
  /\ cbIdle /\ wmIdle /\ smIdle /\ cmIdle

(* what np.argsort can return to the method (line 109) *)
ArgsortsFor(op) ==
  IF op.name \in {"search", "project_query"}
  THEN Argsorts(RowSimilarities(embeddings.rows, op.query))
  ELSE {<<>>}

(* the rest of search, project_query or get_all_points_for_visualization   *)
Compute(t) ==
  /\ es_pc[t] = "compute"
  /\ \E argsort \in ArgsortsFor(es_op[t]) :
       answer' = [answer EXCEPT ![t] =
         CASE es_op[t].name = "search" ->
                Returned(Search(embeddings.rows, es_op[t].query, es_op[t].top_k, argsort))
           [] es_op[t].name = "project_query" ->
                ProjectQuery(Store, es_op[t].query, argsort)
           [] es_op[t].name = "get_all_points_for_visualization" ->
                GetAllPointsForVisualization(Store)]
  /\ es_pc' = [es_pc EXCEPT ![t] = "idle"]
  /\ UNCHANGED <<files, embeddings, projections, chunks, es_op, reads>>
  /\ cbIdle /\ wmIdle /\ smIdle /\ cmIdle

esIdleStore ==
  /\ embeddings = Unset
  /\ projections = Unset
  /\ chunks = Unset
  /\ es_pc = [t \in Threads |-> "idle"]
  /\ es_op = [t \in Threads |-> NoOp]
  /\ answer = [t \in Threads |-> NotCalled]
  /\ reads = <<>>

(* artefacts written together for one embedding matrix *)
ProjectionRows(n) == [i \in 1..n |-> <<i, 0>>]
ChunkRows(n) == [i \in 1..n |-> [id |-> i]]
ArtefactsOf(matrix) ==
  [embeddings |-> Stored(matrix),
   projections |-> Stored(ProjectionRows(Len(matrix))),
   chunks |-> Stored(ChunkRows(Len(matrix)))]

(* One request thread: the directories hold nothing, or the artefacts of   *)
(* any matrix of up to MaxRecords rows.                                    *)
Queries == Vectors

RQOps ==
  {LoadOp(d) : d \in Directories}
    \cup {SearchOp(q, k) : q \in Queries, k \in 0..MaxTopK}
    \cup {ProjectQueryOp(q) : q \in Queries}
    \cup {GetAllPointsOp}

RQInit ==
  /\ cbInit /\ wmParked /\ smParked /\ cmParked
  /\ \E a \in {NoArtefacts} \cup {ArtefactsOf(m) : m \in SeqsUpTo(Vectors, MaxRecords)} :
       files = [d \in Directories |-> a]
  /\ esIdleStore

(* the thread makes one query, cold or after explicit loads; a query does  *)
(* not change the store, so further queries meet the states of the first   *)
RequestBegin(op) == es_op[1].name \in {"none", "load"} /\ Begin(1, op)

RQNext ==
  \/ \E op \in RQOps : RequestBegin(op)
  \/ LoadCheck(1)
  \/ LoadEmbeddings(1)
  \/ LoadProjections(1)
  \/ LoadChunks(1)
  \/ Compute(1)

RQSpec == RQInit /\ [][RQNext]_vars

(* Threads of concurrent requests: each artefact of the configured         *)
(* directory is missing or has its own number of rows.                     *)
FixedRows(n) == [i \in 1..n |-> <<1, i - 1>>]
ESQuery == <<1, 0>>

ESOps ==
  {LoadOp(d) : d \in Directories}
    \cup {SearchOp(ESQuery, 1), ProjectQueryOp(ESQuery), GetAllPointsOp}

ESFiles ==
  {[embeddings |-> e, projections |-> p, chunks |-> c] :
     e \in {Missing} \cup {Stored(FixedRows(n)) : n \in 0..MaxRows},
     p \in {Missing} \cup {Stored(ProjectionRows(n)) : n \in 0..MaxRows},
     c \in {Missing} \cup {Stored(ChunkRows(n)) : n \in 0..MaxRows}}

ESInit ==
  /\ cbInit /\ wmParked /\ smParked /\ cmParked
  /\ \E a \in {NoArtefacts, ArtefactsOf(FixedRows(1))}, b \in ESFiles :
       files = [d \in Directories |-> IF d = DefaultPath THEN a ELSE b]
  /\ esIdleStore

ESNext ==
  \/ \E t \in Threads, op \in ESOps : Begin(t, op)
  \/ \E t \in Threads : LoadCheck(t)
  \/ \E t \in Threads : LoadEmbeddings(t)
  \/ \E t \in Threads : LoadProjections(t)
  \/ \E t \in Threads : LoadChunks(t)
  \/ \E t \in Threads : Compute(t)

ESSpec == ESInit /\ [][ESNext]_vars

---------------------------------------------------------------------------
(* ConnectionManager and websocket_endpoint.  Every socket has one handler *)
(* task; the handlers interleave at their awaits: accept, close,           *)
(* send_text, receive_text and sleep.  Sockets are numbered in the order   *)
(* the clients open them.                                                  *)

othersIdle == cbIdle /\ wmIdle /\ smIdle /\ esIdle

(* ConnectionManager.disconnect: both dictionaries lose the session's key *)
Disconnect(s) ==
  [connections |-> [connections EXCEPT ![s] = NoSocket],
   metadata |-> [metadata EXCEPT ![s] = None]]

(* send_event up to its await, for the first of n events the handler has   *)
(* to send: without a socket registered for the session it returns False   *)
(* and the handler goes on; otherwise the socket registered at this moment *)
(* is the one send_text is awaited on                                      *)
BeginSendEvent(w, n) ==
  LET s == ws_session[w] IN
  IF connections[s] = NoSocket
  THEN /\ pending' = [pending EXCEPT ![w] = n - 1]
       /\ ws_pc' = [ws_pc EXCEPT ![w] = IF n > 1 THEN "sleep" ELSE "receive"]
       /\ UNCHANGED send_ws
  ELSE /\ pending' = [pending EXCEPT ![w] = n]
       /\ ws_pc' = [ws_pc EXCEPT ![w] = "send"]
       /\ send_ws' = [send_ws EXCEPT ![w] = connections[s]]

(* connect(), lines 58-68: the socket is registered with fresh metadata    *)
(* and the confirmation event is on its way to it                          *)
Register(w) ==
  LET s == ws_session[w] IN
  /\ connections' = [connections EXCEPT ![s] = w]
  /\ metadata' = [metadata EXCEPT ![s] = 0]
  /\ newest' = [newest EXCEPT ![s] = w]
  /\ send_ws' = [send_ws EXCEPT ![w] = w]
  /\ pending' = [pending EXCEPT ![w] = 1]
  /\ ws_pc' = [ws_pc EXCEPT ![w] = "send"]

(* a client opens a socket for a valid session id; the handler calls       *)
(* connect(), which awaits websocket.accept()                              *)
Endpoint(w, s) ==
  /\ ws_pc[w] = "unused"
  /\ IF w = 1 THEN TRUE ELSE ws_pc[w - 1] # "unused"
  /\ ws_pc' = [ws_pc EXCEPT ![w] = "accept"]
  /\ ws_session' = [ws_session EXCEPT ![w] = s]
  /\ UNCHANGED <<connections, metadata, ws_state, old_ws, send_ws, pending,
                 newest, received>>
  /\ othersIdle

(* accept() returns; a session that has a socket already gets it closed    *)
(* first (await old_ws.close), otherwise the new socket is registered      *)
Accept(w) ==
  /\ ws_pc[w] = "accept"
  /\ ws_state' = [ws_state EXCEPT ![w] = "open"]
  /\ IF connections[ws_session[w]] # NoSocket
     THEN /\ old_ws' = [old_ws EXCEPT ![w] = connections[ws_session[w]]]
          /\ ws_pc' = [ws_pc EXCEPT ![w] = "close_old"]
          /\ UNCHANGED <<connections, metadata, send_ws, pending, newest>>
     ELSE /\ Register(w)
          /\ UNCHANGED old_ws
  /\ UNCHANGED <<ws_session, received>>
  /\ othersIdle

(* old_ws.close() returns or raises (the exception is swallowed); the new  *)
(* socket is registered in place of whatever is registered by now          *)
CloseOld(w) ==
  /\ ws_pc[w] = "close_old"
  /\ ws_state' = [ws_state EXCEPT ![old_ws[w]] = "closed"]
  /\ Register(w)
  /\ UNCHANGED <<ws_session, old_ws, received>>
  /\ othersIdle

(* send_text returns: the message count of the session goes up; or it      *)
(* raises because the socket is closed, and send_event disconnects the     *)
(* session.  The handler goes on with its next event or the next message.  *)
SendText(w) ==
  LET s == ws_session[w] IN
  /\ ws_pc[w] = "send"
  /\ IF ws_state[send_ws[w]] = "open"
     THEN /\ metadata' = [metadata EXCEPT ![s] = IF @ = None THEN None ELSE @ + 1]
          /\ UNCHANGED connections
     ELSE /\ connections' = Disconnect(s).connections
          /\ metadata' = Disconnect(s).metadata
  /\ pending' = [pending EXCEPT ![w] = @ - 1]
  /\ ws_pc' = [ws_pc EXCEPT ![w] = IF pending[w] > 1 THEN "sleep" ELSE "receive"]
  /\ UNCHANGED <<ws_state, ws_session, old_ws, send_ws, newest, received>>
  /\ othersIdle

(* asyncio.sleep(0.01) between the events of a streamed answer is over *)
Wake(w) ==
  /\ ws_pc[w] = "sleep"
  /\ BeginSendEvent(w, pending[w])
  /\ UNCHANGED <<connections, metadata, ws_state, ws_session, old_ws, newest,
                 received>>
  /\ othersIdle

(* receive_text returns a client message, answered with n events: one for  *)
(* a ping, a state_sync_request or an error, several for a streamed answer *)
Receive(w, n) ==
  /\ ws_pc[w] = "receive"
  /\ ws_state[w] = "open"
  /\ received < MaxMessages
  /\ received' = received + 1
  /\ BeginSendEvent(w, n)
  /\ UNCHANGED <<connections, metadata, ws_state, ws_session, old_ws, newest>>
  /\ othersIdle

(* receive_text raises WebSocketDisconnect on a closed socket: the handler *)
(* calls disconnect(session_id) and ends                                   *)
ReceiveDisconnect(w) ==
  /\ ws_pc[w] = "receive"
  /\ ws_state[w] = "closed"
  /\ connections' = Disconnect(ws_session[w]).connections
  /\ metadata' = Disconnect(ws_session[w]).metadata
  /\ ws_pc' = [ws_pc EXCEPT ![w] = "ended"]
  /\ UNCHANGED <<ws_state, ws_session, old_ws, send_ws, pending, newest, received>>
  /\ othersIdle

(* the client of an accepted socket goes away *)
ClientCloses(w) ==
  /\ ws_pc[w] \notin {"unused", "accept", "parked"}
  /\ ws_state[w] = "open"
  /\ ws_state' = [ws_state EXCEPT ![w] = "closed"]
  /\ UNCHANGED <<connections, metadata, ws_pc, ws_session, old_ws, send_ws,
                 pending, newest, received>>
  /\ othersIdle

cmInit ==
  /\ connections = [s \in Sessions |-> NoSocket]
  /\ metadata = [s \in Sessions |-> None]
  /\ ws_state = [w \in Sockets |-> "connecting"]
  /\ ws_pc = [w \in Sockets |-> "unused"]
  /\ ws_session = [w \in Sockets |-> NoSession]
  /\ old_ws = [w \in Sockets |-> NoSocket]
  /\ send_ws = [w \in Sockets |-> NoSocket]
  /\ pending = [w \in Sockets |-> 0]
  /\ newest = [s \in Sessions |-> NoSocket]
  /\ received = 0

CMInit == cbInit /\ wmParked /\ smParked /\ esParked /\ cmInit

CMNext ==
  \/ \E w \in Sockets, s \in Sessions : Endpoint(w, s)
  \/ \E w \in Sockets : Accept(w)
  \/ \E w \in Sockets : CloseOld(w)
  \/ \E w \in Sockets : SendText(w)
  \/ \E w \in Sockets : Wake(w)
  \/ \E w \in Sockets, n \in 1..MaxEvents : Receive(w, n)
  \/ \E w \in Sockets : ReceiveDisconnect(w)
  \/ \E w \in Sockets : ClientCloses(w)

CMSpec == CMInit /\ [][CMNext]_vars

---------------------------------------------------------------------------

(* Claims.  Steps(p, at): task p takes the step that leaves position at. *)

Steps(p, at) == pc[p] = at /\ pc'[p] # at

(* C1: while Closed, recording a monitored failure adds exactly one to     *)
(* failure_count; the breaker stays Closed while the new count is below    *)
(* failure_threshold and becomes Open with the failure that makes the      *)
(* count reach failure_threshold.                                          *)
C1_ClosedFailureCounting ==
  [][\A p \in Callers :
       (RecordFailureAndRaise(p) /\ stats.state = CLOSED) =>
         /\ stats.failure_count < failure_threshold
         /\ stats'.failure_count = stats.failure_count + 1
         /\ stats'.state = IF stats'.failure_count = failure_threshold
                           THEN OPEN ELSE CLOSED]_vars

C1_Witness ==
  /\ stats.state = OPEN
  /\ stats.failure_count = failure_threshold
  /\ stats.total_failures = failure_threshold
  /\ stats.total_calls = failure_threshold
  /\ recorded = failure_threshold

(* C2: a call that begins while the breaker is Open and less than          *)
(* recovery_timeout has passed since last_failure_time runs to its end     *)
(* before any other task or the clock moves, raises CircuitBreakerError    *)
(* without invoking the wrapped operation, and leaves stats (hence Open)   *)
(* unchanged, whatever other calls are in flight.                          *)
C2_OpenRejects ==
  [][\A p \in Callers :
       /\ (Call(p) /\ stats.state = OPEN
             /\ now - stats.last_failure_time < recovery_timeout)
            => (pc'[p] = "check_open" /\ cur' = p /\ stats' = stats)
       /\ (pc[p] = "check_open" /\ stats.state = OPEN)
            => /\ pc'[p] = "idle"
               /\ result'[p] = "CircuitBreakerError"
               /\ ~admitted'[p]
               /\ stats' = stats]_vars

C2_Witness ==
  \E p, q \in Callers :
    /\ result[p] = "CircuitBreakerError" /\ ~admitted[p]
    /\ pc[q] = "running"
    /\ stats.state = OPEN
    /\ now - stats.last_failure_time < recovery_timeout

(* C3 as claimed: once recovery_timeout has passed since the transition to *)
(* Open (last_state_change of an Open breaker), a call that begins goes on *)
(* to the Open -> HalfOpen transition.                                     *)
C3_AsClaimed ==
  [][\A p \in Callers :
       (Call(p) /\ stats.state = OPEN
          /\ now - stats.last_state_change >= recovery_timeout)
         => pc'[p] = "reset_lock"]_vars

(* C3 amended: once recovery_timeout has passed since last_failure_time    *)
(* (the latest recorded monitored failure, which a call in flight when the *)
(* breaker opened can set later than the transition to Open), a call that  *)
(* begins while Open takes the lock, moves the breaker to HalfOpen and     *)
(* invokes its wrapped operation, with no other task running in between.   *)
C3_RecoveryAfterTimeout ==
  [][\A p \in Callers :
       /\ (Call(p) /\ stats.state = OPEN
             /\ now - stats.last_failure_time >= recovery_timeout)
            => (pc'[p] = "reset_lock" /\ cur' = p /\ stats' = stats)
       /\ pc[p] = "reset_lock"
            => (pc'[p] = "reset_cs" /\ lock' = p /\ stats' = stats)
       /\ pc[p] = "reset_cs"
            => (pc'[p] = "check_open" /\ stats'.state = HALF_OPEN)
       /\ (pc[p] = "check_open" /\ stats.state = HALF_OPEN)
            => (pc'[p] = "running" /\ admitted'[p] /\ result'[p] = "none"
                  /\ stats' = stats)]_vars

C3_Witness ==
  \E p \in Callers :
    /\ pc[p] = "running" /\ admitted[p]
    /\ stats.state = HALF_OPEN
    /\ stats.last_state_change - stats.last_failure_time >= recovery_timeout
    /\ stats.last_state_change = now

(* C4: while HalfOpen, recording a success adds one to success_count; the  *)
(* breaker stays HalfOpen while the new count is below success_threshold,  *)
(* and exactly when it reaches success_threshold the breaker becomes       *)
(* Closed with failure_count = 0 and success_count = 0.                    *)
C4_HalfOpenSuccess ==
  [][\A p \in Callers :
       (RecordSuccessAndReturn(p) /\ stats.state = HALF_OPEN) =>
         /\ stats.success_count < success_threshold
         /\ IF stats.success_count + 1 < success_threshold
            THEN /\ stats'.state = HALF_OPEN
                 /\ stats'.success_count = stats.success_count + 1
            ELSE /\ stats'.state = CLOSED
                 /\ stats'.failure_count = 0
                 /\ stats'.success_count = 0]_vars

(* Closed by a state change later than the last failure: reset() clears    *)
(* last_failure_time, so the change is the HalfOpen -> Closed transition.  *)
C4_Witness ==
  /\ stats.state = CLOSED
  /\ stats.last_failure_time # None
  /\ stats.last_state_change > stats.last_failure_time
  /\ stats.total_successes >= success_threshold
  /\ stats.failure_count = 0 /\ stats.success_count = 0

(* C5: while HalfOpen, recording one monitored failure moves the breaker   *)
(* to Open at once, whatever success_count was, and success_count is 0     *)
(* afterwards.                                                             *)
C5_HalfOpenFailure ==
  [][\A p \in Callers :
       (RecordFailureAndRaise(p) /\ stats.state = HALF_OPEN) =>
         /\ stats'.state = OPEN
         /\ stats'.success_count = 0
         /\ stats'.last_failure_time = now]_vars

(* a failure is being recorded under the lock while HalfOpen with a        *)
(* success already counted                                                 *)
C5_Witness ==
  \E p \in Callers :
    /\ pc[p] = "fail_cs" /\ lock = p
    /\ stats.state = HALF_OPEN
    /\ stats.success_count >= 1

(* C6 as claimed: whenever the wrapped operation of an admitted call       *)
(* fails, the failure is recorded in the statistics.                       *)
C6_AsClaimed ==
  [][\A p \in Callers :
       (admitted[p] /\ result[p] = "none"
          /\ result'[p] \in {"MonitoredError", "UnmonitoredError"})
         => stats'.total_failures = stats.total_failures + 1]_vars

(* C6 amended: when the wrapped operation of an admitted call fails with a *)
(* monitored failure, the call records it (total_calls and total_failures  *)
(* grow by one, last_failure_time is set) and raises that same failure;    *)
(* an unmonitored failure is raised to the caller unchanged and is not     *)
(* recorded; CircuitBreakerError is raised only by a call that found the   *)
(* breaker Open and did not invoke the operation; a call returns normally  *)
(* only when the operation succeeded.                                      *)
C6_ErrorPropagation ==
  [][\A p \in Callers :
       /\ FuncReturn(p, "MonitoredError") => (pc'[p] = "fail_lock" /\ cur' = p)
       /\ pc[p] = "fail_lock" => (pc'[p] = "fail_cs" /\ lock' = p)
       /\ pc[p] = "fail_cs" =>
            /\ pc'[p] = "idle"
            /\ result'[p] = "MonitoredError"
            /\ stats'.total_failures = stats.total_failures + 1
            /\ stats'.total_calls = stats.total_calls + 1
            /\ stats'.last_failure_time = now
       /\ FuncRaiseUnmonitored(p) =>
            (result'[p] = "UnmonitoredError" /\ stats' = stats)
       /\ (result[p] = "none" /\ result'[p] = "CircuitBreakerError")
            => (~admitted[p] /\ stats.state = OPEN)
       /\ (result[p] = "none" /\ result'[p] = "returned")
            => (admitted[p] /\ pc[p] = "succ_cs")]_vars

C6_Witness ==
  \E p, q \in Callers :
    /\ result[p] = "MonitoredError" /\ admitted[p]
    /\ result[q] = "CircuitBreakerError" /\ ~admitted[q]
    /\ stats.total_failures >= failure_threshold

(* C7 as claimed: after N completed calls, whatever their outcomes,        *)
(* total_calls = N.                                                        *)
C7_AsClaimed == cur = NoTask => stats.total_calls = completed

(* C7 amended: every call whose wrapped operation ran and ended in success *)
(* or in a monitored failure adds exactly one to total_calls and exactly   *)
(* one to total_successes, respectively total_failures; under any          *)
(* interleaving no increment is lost, so after N such calls since          *)
(* construction or the last reset total_calls = N; a rejected call and a   *)
(* call ended by an unmonitored failure leave the three counters as they   *)
(* are.                                                                    *)
C7_StatsCounting ==
  /\ [][\A p \in Callers :
          /\ RecordSuccessAndReturn(p) =>
               /\ stats'.total_calls = stats.total_calls + 1
               /\ stats'.total_successes = stats.total_successes + 1
               /\ stats'.total_failures = stats.total_failures
          /\ RecordFailureAndRaise(p) =>
               /\ stats'.total_calls = stats.total_calls + 1
               /\ stats'.total_failures = stats.total_failures + 1
               /\ stats'.total_successes = stats.total_successes
          /\ (Reject(p) \/ FuncRaiseUnmonitored(p)) => stats' = stats]_vars
  /\ [](cur = NoTask => stats.total_calls = recorded)

C7_Witness ==
  /\ cur = NoTask
  /\ \A p \in Callers : pc[p] = "idle"
  /\ stats.total_successes >= 2
  /\ stats.total_failures >= 2
  /\ stats.total_calls = stats.total_successes + stats.total_failures
  /\ completed > recorded

(* C8: reset() leaves the breaker Closed with failure_count,               *)
(* success_count, total_calls, total_successes and total_failures all 0,   *)
(* from whatever state it is called in; and a call that begins while the   *)
(* breaker is Closed, as it is right after reset(), is passed through to   *)
(* the wrapped operation.                                                  *)
C8_Reset ==
  [][/\ Reset =>
          /\ stats'.state = CLOSED
          /\ stats'.failure_count = 0 /\ stats'.success_count = 0
          /\ stats'.total_calls = 0 /\ stats'.total_successes = 0
          /\ stats'.total_failures = 0
     /\ \A p \in Callers :
          /\ (Call(p) /\ stats.state = CLOSED)
               => (pc'[p] = "check_open" /\ cur' = p /\ stats' = stats)
          /\ (pc[p] = "check_open" /\ stats.state = CLOSED)
               => (pc'[p] = "running" /\ admitted'[p])]_vars

(* the breaker had opened and rejected a call and was then reset; the     *)
(* call begun after the reset is at its open check and finds it Closed     *)
C8_Witness ==
  \E p, q \in Callers :
    /\ result[p] = "CircuitBreakerError"
    /\ pc[q] = "check_open" /\ cur = q
    /\ stats = CircuitBreakerStats(stats.last_state_change)
    /\ completed = 0

(* C9 as claimed: for every conversation, every min_messages_to_keep >= 0 *)
(* and every budget, truncate_conversation returns a list with at most     *)
(* len(conversation) and at least min(min_messages_to_keep,                *)
(* len(conversation)) messages.                                            *)
C9_SizeBounds ==
  wm_pc # "input" =>
    /\ once.raised = ""
    /\ Len(once.value) <= Len(conversation)
    /\ Len(once.value) >= Min(min_messages_to_keep, Len(conversation))

(* C10: whenever truncate_conversation returns, applying it again to the   *)
(* returned list with the same system_prompt_tokens and rag_context_tokens *)
(* returns that same list, also when the first result is still over budget *)
(* and when it begins with a system message.                               *)
C10_Idempotent ==
  wm_pc = "twice" => (twice.raised = "" /\ twice.value = once.value)

(* the first call evicted messages, kept a leading system message and      *)
(* stopped at min_messages_to_keep while still over budget                 *)
C10_Witness ==
  /\ wm_pc = "twice"
  /\ Len(once.value) < Len(conversation)
  /\ Len(once.value) = min_messages_to_keep
  /\ Len(once.value) >= 2
  /\ once.value[1].role = "system"
  /\ CountConversationTokens(once.value) > AvailableTokens

(* the conversation without the d messages that follow its first start     *)
(* messages                                                                *)
RemoveRun(turns, start, d) ==
  SubSeq(turns, 1, start) \o SubSeq(turns, start + d + 1, Len(turns))

(* eviction may stop at what is left: it fits, or it has the minimum length *)
EvictionStops(left) ==
  \/ CountConversationTokens(left) <= AvailableTokens
  \/ Len(left) = min_messages_to_keep

(* C11 as claimed: when the conversation has more than                     *)
(* min_messages_to_keep messages and costs more than the available tokens, *)
(* truncate_conversation returns the conversation without one contiguous   *)
(* run of its oldest messages (from index 0, or from index 1 when message  *)
(* 0 has role system and is kept), the rest in order and unchanged, and    *)
(* the run has the smallest length d >= 1 after which the rest fits or has *)
(* min_messages_to_keep messages.                                          *)
C11_EvictionRule ==
  (/\ wm_pc # "input"
   /\ Len(conversation) > min_messages_to_keep
   /\ CountConversationTokens(conversation) > AvailableTokens)
  => /\ once.raised = ""
     /\ LET start == IF conversation[1].role = "system" THEN 1 ELSE 0
        IN \E d \in 1..(Len(conversation) - start) :
             /\ once.value = RemoveRun(conversation, start, d)
             /\ EvictionStops(RemoveRun(conversation, start, d))
             /\ \A e \in 1..(d - 1) :
                  ~EvictionStops(RemoveRun(conversation, start, e))

(* C12 as claimed: for every conversation and every min_messages_to_keep   *)
(* >= 0, truncate_conversation returns (it does not raise) after evicting  *)
(* at most len(conversation) messages, also when the available tokens are  *)
(* zero or negative, and then, given more than min_messages_to_keep        *)
(* messages, it returns exactly min_messages_to_keep of them.              *)
C12_Terminates ==
  wm_pc # "input" =>
    /\ once.raised = ""
    /\ Len(conversation) - Len(once.value) \in 0..Len(conversation)
    /\ (AvailableTokens <= 0 /\ Len(conversation) > min_messages_to_keep)
         => Len(once.value) = min_messages_to_keep

(* C13 as claimed: summarize_conversation returns the conversation as it   *)
(* is when it has at most keep_recent_messages messages; otherwise, for    *)
(* every keep_recent_messages >= 0 and a model that responds, it returns   *)
(* keep_recent_messages + 1 messages: a system message carrying the marked *)
(* summary of conversation[:-keep_recent_messages], then the last          *)
(* keep_recent_messages messages, in order and unchanged.                  *)
C13_SummarizeShape ==
  (wm_pc = "summarized" /\ llm.outcome # "raised") =>
    /\ summarized.raised = ""
    /\ LET n == Len(conversation)
           keep == keep_recent_messages
       IN IF n <= keep THEN summarized.value = conversation
          ELSE /\ Len(summarized.value) = keep + 1
               /\ summarized.value[1] = SummaryMessage(llm.content)
               /\ llm.text = ConversationText(SubSeq(conversation, 1, n - keep))
               /\ \A i \in 1..keep :
                    summarized.value[i + 1] = conversation[n - keep + i]

(* C14 as claimed: whenever the request to the summarizing model raises,   *)
(* summarize_conversation does not raise and returns exactly what          *)
(* truncate_conversation returns for the conversation with                 *)
(* system_prompt_tokens = rag_context_tokens = 0, and the returned list    *)
(* still contains the min(min_messages_to_keep, len(conversation)) most    *)
(* recent messages of the conversation.                                    *)
C14_SummarizeFallback ==
  (wm_pc = "summarized" /\ llm.outcome = "raised") =>
    /\ summarized.raised = ""
    /\ summarized = TruncateConversation(Manager, conversation, 0, 0)
    /\ LET n == Len(conversation)
           m == Min(min_messages_to_keep, n)
           k == Len(summarized.value)
       IN /\ k >= m
          /\ SubSeq(summarized.value, k - m + 1, k) = SubSeq(conversation, n - m + 1, n)

ShouldSummarizeAsked == wm_pc = "asked" /\ max_tokens # 0

Answered(t, name) == es_pc[t] = "idle" /\ es_op[t].name = name /\ answer[t] # NotCalled

(* C16 as claimed: search on a store with at least one record and          *)
(* top_k >= 1 returns exactly min(top_k, number of records) results, each  *)
(* a different record, in the order of non-increasing similarity, and      *)
(* every record it does not return has a similarity no greater than the    *)
(* lowest one returned.                                                    *)
C16_SearchTopK ==
  (/\ Answered(1, "search")
   /\ Len(embeddings.rows) >= 1
   /\ es_op[1].top_k >= 1)
  => /\ answer[1].raised = ""
     /\ LET results == answer[1].value
            n == Len(embeddings.rows)
            similarities == RowSimilarities(embeddings.rows, es_op[1].query)
            returned == {results[i][1] : i \in 1..Len(results)}
        IN /\ Len(results) = Min(es_op[1].top_k, n)
           /\ \A i \in 1..Len(results) :
                /\ results[i][1] \in 0..(n - 1)
                /\ results[i][2] = similarities[results[i][1] + 1]
           /\ \A i, j \in 1..Len(results) : i # j => results[i][1] # results[j][1]
           /\ \A i \in 1..(Len(results) - 1) :
                ScoreLeq(results[i + 1][2], results[i][2])
           /\ \A r \in 0..(n - 1) :
                r \notin returned =>
                  ScoreLeq(similarities[r + 1], results[Len(results)][2])

(* C17: on a store without records, loaded from a directory without        *)
(* artefacts by an explicit load() or by the first query itself, search    *)
(* returns [] for every query vector and every top_k, project_query        *)
(* returns QueryProjection(x=0.0, y=0.0) for every query vector, and       *)
(* neither raises.                                                         *)
C17_EmptyIndexTotal ==
  (~embeddings.is_none /\ Len(embeddings.rows) = 0) =>
    /\ Answered(1, "search") => answer[1] = Returned(<<>>)
    /\ Answered(1, "project_query") => answer[1] = Returned(Origin)

(* a cold project_query: no load() was called, the query's own load found  *)
(* no artefacts, and the origin was returned                               *)
C17_Witness ==
  /\ Answered(1, "project_query")
  /\ es_op[1].query # <<0, 0>>
  /\ Len(reads) = 1 /\ reads[1].by = "project_query"
  /\ files[DefaultPath] = NoArtefacts
  /\ embeddings = Array(<<>>) /\ projections = Array(<<>>)
  /\ answer[1] = Returned(Origin)

(* C20 as claimed: search with top_k = 0 on a store with at least one      *)
(* record returns [] and does not raise.                                   *)
C20_SearchZeroK ==
  (/\ Answered(1, "search")
   /\ Len(embeddings.rows) >= 1
   /\ es_op[1].top_k = 0)
  => answer[1] = Returned(<<>>)

(* C18 as claimed: over every interleaving of load() calls with any path   *)
(* and of the loads the first queries of concurrent threads make, the      *)
(* artefacts are read and the store populated once only, and every load()  *)
(* that finds the store populated returns leaving embeddings, projections  *)
(* and chunks as they are.                                                 *)
C18_LoadOnce ==
  [][/\ Len(reads') <= 1
     /\ \A t \in Threads :
          (LoadCheck(t) /\ ~embeddings.is_none)
            => UNCHANGED <<embeddings, projections, chunks, reads>>]_vars

(* the three attributes are set and have the same number of rows *)
RowsAgree ==
  /\ ~embeddings.is_none /\ ~projections.is_none /\ ~chunks.is_none
  /\ Len(embeddings.rows) = Len(projections.rows)
  /\ Len(projections.rows) = Len(chunks.rows)

(* C19 as claimed: artefacts whose numbers of rows differ are not loaded,  *)
(* so whenever search, project_query or get_all_points_for_visualization   *)
(* returns an answer, the store it answers from is completely loaded and   *)
(* its embeddings, projections and chunks have the same number of rows.    *)
C19_Integrity ==
  [][\A t \in Threads :
       (Compute(t) /\ answer'[t].raised = "") => RowsAgree]_vars

(* C21: admission is race-free.  The timeout test of line 224, the         *)
(* transition under the lock and the Open test of line 230 are made by one *)
(* task without a suspension in between: a task that found the timeout     *)
(* elapsed is the running task up to its transition, it finds the lock     *)
(* free, and the breaker is still Open with the timeout elapsed when it    *)
(* transitions; a task at the rejection decision never sees an Open        *)
(* breaker whose timeout has elapsed, so no call is rejected on a stale    *)
(* Open status, whatever calls are in flight.                              *)
C21_AdmissionRaceFree ==
  \A p \in Callers :
    /\ pc[p] = "reset_lock"
         => (cur = p /\ lock = NoTask /\ ShouldAttemptReset(stats, now))
    /\ pc[p] = "reset_cs"
         => (cur = p /\ lock = p /\ ShouldAttemptReset(stats, now))
    /\ pc[p] = "check_open"
         => (cur = p /\ lock = NoTask /\ ~ShouldAttemptReset(stats, now))

(* a call that found the timeout elapsed stands at the rejection decision  *)
(* with the breaker half-open, while another call is still in flight       *)
C21_Witness ==
  \E p, q \in Callers :
    /\ p # q
    /\ pc[p] = "check_open" /\ pc[q] = "running"
    /\ stats.state = HALF_OPEN /\ stats.last_state_change = now
    /\ stats.last_failure_time # None
    /\ now - stats.last_failure_time >= recovery_timeout

(* C22 as claimed: every read and every write of the breaker's fields by   *)
(* call (the timeout test, the Open test, the transition, the bookkeeping  *)
(* of an outcome) and by reset() is made by a task that holds the lock.    *)
C22_AsClaimed ==
  [][/\ \A p \in Callers :
          (\/ Call(p) \/ Reject(p) \/ Invoke(p) \/ HalfOpenUnderLock(p)
           \/ RecordSuccessAndReturn(p) \/ RecordFailureAndRaise(p))
            => lock = p
     /\ Reset => lock # NoTask]_vars

(* C22 amended: every write of the breaker's fields by call is made by the *)
(* running task while it holds the lock; the timeout test of line 224, the *)
(* Open test of line 230 and reset() are made without the lock, at moments *)
(* when no task holds it.                                                  *)
C22_WritesUnderLock ==
  [][/\ stats' # stats => (Reset \/ (cur # NoTask /\ lock = cur))
     /\ \A p \in Callers :
          (Call(p) \/ Reject(p) \/ Invoke(p) \/ Reset) => lock = NoTask
     /\ \A p \in Callers :
          (\/ HalfOpenUnderLock(p) \/ RecordSuccessAndReturn(p)
           \/ RecordFailureAndRaise(p)) => lock = p]_vars

(* one task is inside the critical section of _record_failure while the    *)
(* operation of another is in flight, after an earlier call was rejected   *)
(* on the unlocked Open test                                               *)
C22_Witness ==
  \E p, q \in Callers :
    /\ p # q
    /\ pc[p] = "fail_cs" /\ lock = p /\ cur = p
    /\ pc[q] = "running"
    /\ stats.total_failures >= failure_threshold

(* C23: the lock is not held across the wrapped operation.  Whenever every *)
(* task is suspended, in particular while an operation is in progress, the *)
(* lock is free; a task whose operation is in progress does not hold it;   *)
(* and a task that reaches `async with self._lock` finds it free, so the   *)
(* calls of other tasks are admitted and recorded while the operation of   *)
(* one task stays in progress.                                             *)
C23_LockNotHeldAcrossCall ==
  /\ cur = NoTask => lock = NoTask
  /\ \A p \in Callers : pc[p] = "running" => lock # p
  /\ \A q \in Callers :
       (cur = q /\ pc[q] \in {"reset_lock", "succ_lock", "fail_lock"})
         => lock = NoTask

(* the operation of p, admitted in an earlier Closed period, is still in   *)
(* progress; since then the other task's failures opened the breaker, its  *)
(* next call made the breaker half-open and returned with its success      *)
(* recorded                                                                *)
C23_Witness ==
  \E p, q \in Callers :
    /\ p # q
    /\ pc[p] = "running" /\ admitted_in[p].state = CLOSED
    /\ stats.state = HALF_OPEN /\ stats.success_count = 1
    /\ stats.last_state_change > admitted_in[p].since
    /\ pc[q] = "idle" /\ result[q] = "returned"
    /\ lock = NoTask

(* C24: legal transitions.  A step of call changes the state only from     *)
(* Closed to Open, from Open to HalfOpen, from HalfOpen to Closed or from  *)
(* HalfOpen to Open; every other change of the state is a reset().         *)
C24_LegalTransitions ==
  [][stats'.state # stats.state
       => \/ Reset
          \/ <<stats.state, stats'.state>> \in
               {<<CLOSED, OPEN>>, <<OPEN, HALF_OPEN>>,
                <<HALF_OPEN, CLOSED>>, <<HALF_OPEN, OPEN>>}]_vars

(* the breaker has gone Closed, Open, HalfOpen and is Closed again: with   *)
(* MaxCalls calls, that many failures and successes leave no call before a *)
(* reset                                                                   *)
C24_Witness ==
  /\ stats.state = CLOSED
  /\ stats.total_failures >= failure_threshold
  /\ stats.total_successes >= success_threshold
  /\ stats.last_state_change > 0
  /\ stats.last_failure_time # None
  /\ stats.last_state_change >= stats.last_failure_time + recovery_timeout

(* C25 as claimed: immediately after each of Closed->Open, Open->HalfOpen, *)
(* HalfOpen->Closed and HalfOpen->Open both failure_count and              *)
(* success_count are 0.                                                    *)
C25_AsClaimed ==
  [][(<<stats.state, stats'.state>> \in
        {<<CLOSED, OPEN>>, <<OPEN, HALF_OPEN>>,
         <<HALF_OPEN, CLOSED>>, <<HALF_OPEN, OPEN>>})
       => (stats'.failure_count = 0 /\ stats'.success_count = 0)]_vars

(* C25 amended: immediately after each of the four transitions             *)
(* success_count is 0; failure_count is 0 after HalfOpen->Closed only: it  *)
(* has just reached failure_threshold after Closed->Open, and it is left   *)
(* as it was by Open->HalfOpen and by HalfOpen->Open.                      *)
C25_CountersAfterTransition ==
  [][(<<stats.state, stats'.state>> \in
        {<<CLOSED, OPEN>>, <<OPEN, HALF_OPEN>>,
         <<HALF_OPEN, CLOSED>>, <<HALF_OPEN, OPEN>>})
       => /\ stats'.success_count = 0
          /\ stats'.state = CLOSED => stats'.failure_count = 0
          /\ stats.state = CLOSED
               => (/\ stats'.failure_count = stats.failure_count + 1
                   /\ stats'.failure_count >= failure_threshold)
          /\ (stats.state # CLOSED /\ stats'.state # CLOSED)
               => stats'.failure_count = stats.failure_count]_vars

(* the breaker has opened, become half-open, recorded a probe's success    *)
(* and still carries the failures that opened it                           *)
C25_Witness ==
  /\ stats.state = HALF_OPEN
  /\ stats.failure_count = failure_threshold
  /\ stats.success_count = 1

(* C26: failure window.  In the Closed state a failure recorded at least   *)
(* failure_window after the previous failure does not add to the earlier   *)
(* count: it starts the count again at 1, and (the threshold being more    *)
(* than 1) the breaker stays Closed.                                       *)
C26_FailureWindow ==
  [][\A p \in Callers :
       (/\ RecordFailureAndRaise(p)
        /\ stats.state = CLOSED
        /\ stats.last_failure_time # None
        /\ now - stats.last_failure_time >= failure_window)
         => (stats'.failure_count = 1 /\ stats'.state = CLOSED)]_vars

(* C27: unmonitored failures pass through untouched.  When the wrapped     *)
(* operation of an admitted call raises an exception outside               *)
(* monitored_exceptions, whatever the state of the breaker at that moment, *)
(* the call ends raising that exception, and state, failure_count,         *)
(* success_count and last_failure_time are left as they were.              *)
C27_UnmonitoredUntouched ==
  [][\A p \in Callers :
       FuncRaiseUnmonitored(p)
         => /\ admitted[p] /\ admitted_in[p].state \in {CLOSED, HALF_OPEN}
            /\ result'[p] = "UnmonitoredError"
            /\ stats'.state = stats.state
            /\ stats'.failure_count = stats.failure_count
            /\ stats'.success_count = stats.success_count
            /\ stats'.last_failure_time = stats.last_failure_time]_vars

(* a probe admitted by the half-open breaker has ended with an unmonitored *)
(* exception and the breaker is still half-open: of the calls made,        *)
(* failure_threshold failed and opened it, and the last one made it        *)
(* half-open and ended in the unmonitored exception                        *)
C27_Witness ==
  \E p \in Callers :
    /\ result[p] = "UnmonitoredError"
    /\ \A q \in Callers : pc[q] = "idle"
    /\ stats.state = HALF_OPEN /\ stats.success_count = 0
    /\ stats.total_failures = failure_threshold
    /\ started = failure_threshold + 1 /\ completed = started

(* C28: counter bounds.  In every reachable state: Closed implies          *)
(* failure_count < failure_threshold and success_count = 0; Open implies   *)
(* success_count = 0 and last_failure_time is set; HalfOpen implies        *)
(* success_count < success_threshold.                                      *)
C28_CounterBounds ==
  /\ stats.state = CLOSED
       => (stats.failure_count < failure_threshold /\ stats.success_count = 0)
  /\ stats.state = OPEN
       => (stats.success_count = 0 /\ stats.last_failure_time # None)
  /\ stats.state = HALF_OPEN
       => stats.success_count < success_threshold

(* the bounds are tight: a half-open breaker one success short of closing, *)
(* with another probe in flight                                            *)
C28_Witness ==
  /\ stats.state = HALF_OPEN
  /\ stats.success_count = success_threshold - 1
  /\ \E p \in Callers : pc[p] = "running" /\ admitted_in[p].state = HALF_OPEN

(* C29: probe accounting.  Only calls admitted during the current HalfOpen *)
(* period count toward recovery: when the success of a call admitted       *)
(* earlier (while Closed, or in a previous HalfOpen period) is recorded    *)
(* while the breaker is HalfOpen, success_count is not incremented and the *)
(* breaker stays HalfOpen.                                                 *)
C29_ProbeAccounting ==
  [][\A p \in Callers :
       (/\ RecordSuccessAndReturn(p)
        /\ stats.state = HALF_OPEN
        /\ admitted_in[p] # [state |-> HALF_OPEN,
                             since |-> stats.last_state_change])
         => (/\ stats'.success_count = stats.success_count
             /\ stats'.state = HALF_OPEN)]_vars

(* C30: replacement safety.  When the handler of a replaced connection is  *)
(* torn down on WebSocketDisconnect while the socket registered last for   *)
(* its session is open and registered, that socket stays registered, so    *)
(* that send_event for the session is still sent on it.                    *)
C30_ReplacementSafety ==
  [][\A w \in Sockets :
       LET s == ws_session[w] IN
       (/\ ReceiveDisconnect(w)
        /\ newest[s] # w
        /\ ws_state[newest[s]] = "open"
        /\ connections[s] = newest[s])
         => connections'[s] = newest[s]]_vars

===========================================================================
